---- MODULE Spec2Model ----
(***************************************************************************)
(* A model of the sprunge parser-combinator library.                       *)
(*                                                                         *)
(* A parser is a value with one method, parse(s, p, resin), which returns  *)
(* either the canonical failure or a success array [value, position].      *)
(* Most parsers report success by writing into the caller's result array   *)
(* `resin` and returning that same array; a few allocate a fresh array.    *)
(* The model keeps the distinction: a result is either an alias of the     *)
(* shared array (its content is whatever the array holds when it is read)  *)
(* or a fresh array with content of its own.                               *)
(*                                                                         *)
(* Spec follows single calls of parse on a parser; RepSpec follows rep     *)
(* pass by pass; DriverSpec follows the calls of one ParseFn, the function *)
(* parser(root, options) returns, with the state it keeps between calls.   *)
(* ErrorSpec follows the rendering of a ParseError's context, CauseSpec    *)
(* the shared failure records under fail and the cause-name helpers,       *)
(* TreeSpec one call of a ParseFn that builds the tree of parse nodes, and *)
(* LazySpec the calls of a lazily initialised combinator whose child       *)
(* handle is assigned and reassigned between them.                         *)
(***************************************************************************)
EXTENDS Integers, Sequences, FiniteSets, TLC

\* ---------------------------------------------------------------- bounds
MaxLen == 3

\* ------------------------------------------------------------ characters
Alphabet == {"a", " "}

Undefined == "undefined"

\* the UTF-16 code unit order that String.prototype.sort and < use
Code(ch) ==
  CASE ch = " " -> 32
    [] ch = "\t" -> 9
    [] ch = "\n" -> 10
    [] ch = "\r" -> 13
    [] ch = "A" -> 65
    [] ch = "a" -> 97
    [] ch = "b" -> 98
    [] ch = "f" -> 102
    [] ch = "o" -> 111
    [] OTHER -> 0

RECURSIVE SeqsUpTo(_)
SeqsUpTo(n) ==
  IF n = 0 THEN {<<>>}
  ELSE LET shorter == SeqsUpTo(n - 1)
       IN  shorter \cup {Append(w, ch) : w \in {v \in shorter : Len(v) = n - 1}, ch \in Alphabet}

Inputs == SeqsUpTo(MaxLen)

\* inputs in both cases
CaseInputs == UNION {[1..n -> {"a", "A"}] : n \in 1..MaxLen}

\* String.prototype.toLowerCase and toUpperCase
toLowerCase(w) == [i \in 1..Len(w) |-> IF w[i] = "A" THEN "a" ELSE w[i]]
toUpperCase(w) == [i \in 1..Len(w) |-> IF w[i] = "a" THEN "A" ELSE w[i]]

\* s[i] of a JavaScript string: undefined outside of the string
At(s, i) == IF i >= 0 /\ i < Len(s) THEN s[i + 1] ELSE Undefined

Min(a, b) == IF a <= b THEN a ELSE b
Max(a, b) == IF a >= b THEN a ELSE b
Clamp(s, i) == Max(0, Min(i, Len(s)))

\* String.prototype.substring(a, b): both ends clamped, swapped when a > b
Substring(s, a, b) ==
  LET lo == Min(Clamp(s, a), Clamp(s, b))
      hi == Max(Clamp(s, a), Clamp(s, b))
  IN  SubSeq(s, lo + 1, hi)

\* String.prototype.substr(p, count)
Substr(s, p, count) == SubSeq(s, Clamp(s, p) + 1, Min(Len(s), Clamp(s, p) + count))

\* ---------------------------------------------------------------- values
\* parse values: strings, lists of values, null
StrV(w) == [t |-> "str", s |-> w, l |-> <<>>]
ListV(vs) == [t |-> "list", s |-> <<>>, l |-> vs]
Null == [t |-> "null", s |-> <<>>, l |-> <<>>]
UndefinedV == [t |-> "undefined", s |-> <<>>, l |-> <<>>]
\* the array `empty` of a rep or repsep, handed out by reference: what it
\* holds is st.empty
EmptyRef == [t |-> "ref", s |-> <<>>, l |-> <<>>]

\* a value as its holder sees it while the array `empty` holds e
RECURSIVE Deref(_, _)
Deref(v, e) ==
  IF v = EmptyRef THEN ListV(e)
  ELSE IF v.t = "list" THEN ListV([i \in 1..Len(v.l) |-> Deref(v.l[i], e)])
  ELSE v

NumV(n) == [t |-> "num", s |-> <<ToString(n)>>, l |-> <<>>]

\* ------------------------------------------------------- character search
RECURSIVE charListFrom(_)
charListFrom(set) ==
  IF set = {} THEN <<>>
  ELSE LET lo == CHOOSE c \in set : \A d \in set : Code(c) <= Code(d)
       IN  <<lo>> \o charListFrom(set \ {lo})

\* sorted, duplicate-free list of the characters of chars
charList(chars) == charListFrom({chars[i] : i \in 1..Len(chars)})

contains(sorted, x) == \E i \in 1..Len(sorted) : sorted[i] = x

RECURSIVE seekUntilChar(_, _, _)
seekUntilChar(s, p, chars) ==
  IF p >= Len(s) THEN Len(s)
  ELSE IF contains(chars, At(s, p)) THEN p
  ELSE seekUntilChar(s, p + 1, chars)

RECURSIVE seekWhileChar(_, _, _)
seekWhileChar(s, p, chars) ==
  IF p >= Len(s) THEN Len(s)
  ELSE IF ~contains(chars, At(s, p)) THEN p
  ELSE seekWhileChar(s, p + 1, chars)

\* ------------------------------------------------- shared state of a parse
\* st.resin        the success array handed down the call chain
\* st.cause        _cause, the shared failure record ([position, message, name])
\* st.latest       _latestCause
\* st.detailedFail the detail bits: 1 = messages, 2 = causes
\* st.empty        what the array `empty` of the rep or repsep of the grammar
\*                 holds
\* st.lazy         the state of opt(h), the lazy combinator of the grammar
\* st.tree         whether the call is handed a ParseNode (the argument tree)
\* st.nodes        the children of that ParseNode
NewSuccess == [val |-> Null, pos |-> 0]
NoCause == [pos |-> 0, msg |-> "", name |-> ""]

\* a message that is passed whatever the detail bits are
MsgAlways(st, m) == m

\* `detailedFail & 1 && message`: false when the messages bit is off
Msg(st, m) == IF st.detailedFail % 2 = 1 THEN m ELSE ""

\* the outcome of one parse call
\*   kind   "ok", "fail", "throw" when the call raises an exception, or
\*          "loop" when it never returns
\*   alias  TRUE when the returned array is the shared resin
\*   val, pos  the content of the returned array at return
\*   st     the shared state at return
Returned(st) ==
  [kind |-> "ok", alias |-> TRUE, val |-> st.resin.val, pos |-> st.resin.pos, st |-> st]

FreshSuccess(v, q, st) ==
  [kind |-> "ok", alias |-> FALSE, val |-> v, pos |-> q, st |-> st]

\* the call is left by an exception
Throw(st) ==
  [kind |-> "throw", alias |-> FALSE, val |-> Null, pos |-> -1, st |-> st]

Diverge(st) ==
  [kind |-> "loop", alias |-> FALSE, val |-> Null, pos |-> -1, st |-> st]

\* res[0] = v; res[1] = q; return res
Write(v, q, st) == Returned([st EXCEPT !.resin = [val |-> v, pos |-> q]])

\* fail(pos, message): overwrite _cause, track _latestCause, return Fail
fail(q, message, st) ==
  LET c == [pos |-> q, msg |-> message, name |-> ""]
  IN  [kind |-> "fail", alias |-> FALSE, val |-> Null, pos |-> -1,
       st |-> [st EXCEPT !.cause = c,
                         !.latest = IF st.detailedFail % 2 = 1 /\ q >= st.latest.pos
                                    THEN c ELSE st.latest]]

\* r[0] and r[1] of an earlier result r, read when the shared state is st
ValOf(r, st) == IF r.alias THEN st.resin.val ELSE r.val
PosOf(r, st) == IF r.alias THEN st.resin.pos ELSE r.pos

\* return an earlier result r when the shared state is st
Return(r, st) == IF r.alias THEN Returned(st) ELSE [r EXCEPT !.st = st]

\* r[0] = v on an earlier result r
SetVal(r, v, st) ==
  IF r.alias THEN Returned([st EXCEPT !.resin.val = v]) ELSE [r EXCEPT !.val = v, !.st = st]

\* --------------------------------------------------------------- parsers
\* a parser value: k the constructor, a the child parsers, x a character
\* list, strs a list of strings, n a count, t an option
Parser(k, a, x, strs, n, t) == [k |-> k, a |-> a, x |-> x, strs |-> strs, n |-> n, t |-> t]

\* lazy parsers: the object { parser: target }, the object {} whose parser
\* is not assigned yet, a variable that is still undefined, and a value that
\* is falsy without being null or undefined
handle(parser) == Parser("handle", <<parser>>, <<>>, <<>>, 0, "")
unassigned == Parser("handle", <<>>, <<>>, <<>>, 0, "")
undefinedParser == Parser("undefined", <<>>, <<>>, <<>>, 0, "")
falsy == Parser("falsy", <<>>, <<>>, <<>>, 0, "")
uninit == Parser("uninit", <<>>, <<>>, <<>>, 0, "")

\* stands for the TypeError of reading .parser of undefined
Raises == Parser("TypeError", <<>>, <<>>, <<>>, 0, "")

\* ((parser as any).parser || parser) || uninit
unwrap(parser) ==
  IF parser.k = "undefined" THEN Raises
  ELSE IF parser.k = "handle" /\ parser.a # <<>> THEN parser.a[1]
  ELSE IF parser.k = "falsy" THEN uninit
  ELSE parser

\* opt(h) for the handle h of the grammar, created with lazy(init, parse):
\*   h         the handle as it is now: { parser: target } or {}
\*   ps        what init has captured, undefined before
\*   inits     the number of runs of init
\*   replaced  res.parse is the function parse
\*   first     the handle as it was when opt(h) was first called
optH == Parser("optH", <<>>, <<>>, <<>>, 0, "")
NoLazy ==
  [h |-> unassigned, ps |-> undefinedParser, inits |-> 0, replaced |-> FALSE, first |-> unassigned]

skip(chars) == Parser("skip", <<>>, chars, <<>>, 0, "")
skip1(chars) == Parser("skip1", <<>>, chars, <<>>, 0, "")
read(chars) == Parser("read", <<>>, chars, <<>>, 0, "")
read1(chars) == Parser("read1", <<>>, chars, <<>>, 0, "")
chars(count, allowed) == Parser("chars", <<>>, allowed, <<>>, count, "")
notchars(count, disallowed) == Parser("notchars", <<>>, disallowed, <<>>, count, "")
readTo(stop, end) == Parser("readTo", <<>>, stop, <<>>, 0, end)
read1To(stop, end) == Parser("read1To", <<>>, stop, <<>>, 0, end)
peek(count) == Parser("peek", <<>>, <<>>, <<>>, count, "")
str(strings) == Parser("str", <<>>, <<>>, strings, 0, "")
istr(strings) == Parser("istr", <<>>, <<>>, strings, 0, "")
map(parser, fn) == Parser("map", <<parser>>, <<>>, <<>>, 0, fn)
verify(parser, fn) == Parser("verify", <<parser>>, <<>>, <<>>, 0, fn)
opt(parser) == Parser("opt", <<parser>>, <<>>, <<>>, 0, "")
not(parser) == Parser("not", <<parser>>, <<>>, <<>>, 0, "")
alt(parsers) == Parser("alt", parsers, <<>>, <<>>, 0, "")
seq(parsers) == Parser("seq", parsers, <<>>, <<>>, 0, "")
check(parsers) == Parser("check", parsers, <<>>, <<>>, 0, "")
bracket(left, content, right) == Parser("bracket", <<left, content, right>>, <<>>, <<>>, 0, "")
bracketEnds(ends, content) == Parser("bracketEnds", ends \o <<content>>, <<>>, <<>>, 0, "")
andNot(parser, np) == Parser("andNot", <<parser, np>>, <<>>, <<>>, 0, "")
rep(parser) == Parser("rep", <<parser>>, <<>>, <<>>, 0, "")
rep1(parser) == Parser("rep1", <<parser>>, <<>>, <<>>, 0, "")
repsep(parser, sep, trail) == Parser("repsep", <<parser, sep>>, <<>>, <<>>, 0, trail)
rep1sep(parser, sep, trail) == Parser("rep1sep", <<parser, sep>>, <<>>, <<>>, 0, trail)
outer(parser) == Parser("outer", <<parser>>, <<>>, <<>>, 0, "")
readToParser(sigils, parser) == Parser("readToParser", <<parser>>, sigils, <<>>, 0, "")
read1ToParser(sigils, parser) == Parser("read1ToParser", <<parser>>, sigils, <<>>, 0, "")

\* ------------------------------------------------------------ primitives
skipParse(P, s, p, st) ==
  Returned([st EXCEPT !.resin.pos = seekWhileChar(s, p, charList(P.x))])

skip1Parse(P, s, p, st) ==
  LET st1 == [st EXCEPT !.resin.pos = seekWhileChar(s, p, charList(P.x))]
  IN  IF st1.resin.pos = p THEN fail(p, Msg(st, "expected at least one of"), st1)
      ELSE Returned(st1)

readParse(P, s, p, st) ==
  LET r == seekWhileChar(s, p, charList(P.x))
  IN  Write(StrV(Substring(s, p, r)), r, st)

read1Parse(P, s, p, st) ==
  LET r == seekWhileChar(s, p, charList(P.x))
  IN  IF r = p THEN fail(p, Msg(st, "expected one of"), st)
      ELSE Write(StrV(Substring(s, p, r)), r, st)

\* allowed = <<>> stands for an omitted `allowed`
charsParse(P, s, p, st) ==
  IF Len(s) - p >= P.n
  THEN LET w == Substr(s, p, P.n)
           sorted == charList(P.x)
           bad == {i \in 0..(P.n - 1) : ~contains(sorted, At(w, i))}
       IN  IF P.x # <<>> /\ bad # {}
           THEN fail(p + (CHOOSE i \in bad : \A j \in bad : i <= j),
                     Msg(st, "unexpected char"), st)
           ELSE Write(StrV(w), p + P.n, st)
  ELSE fail(p, Msg(st, "unexpected end of input"), st)

notcharsParse(P, s, p, st) ==
  IF Len(s) - p >= P.n
  THEN LET w == Substr(s, p, P.n)
           sorted == charList(P.x)
           bad == {i \in 0..(P.n - 1) : contains(sorted, At(w, i))}
       IN  IF bad # {}
           THEN fail(p + (CHOOSE i \in bad : \A j \in bad : i <= j),
                     Msg(st, "unexpected char"), st)
           ELSE Write(StrV(w), p + P.n, st)
  ELSE fail(p, Msg(st, "unexpected end of input"), st)

\* readTo once seekUntilChar has returned skipped
readToFrom(P, s, p, st, skipped) ==
  IF P.t # "end" /\ skipped >= Len(s)
  THEN fail(skipped - 1, Msg(st, "expected one of ... before end of input"), st)
  ELSE Write(StrV(IF skipped # 0 THEN Substring(s, p, skipped) ELSE <<>>), skipped, st)

readToParse(P, s, p, st) == readToFrom(P, s, p, st, seekUntilChar(s, p, charList(P.x)))

\* read1To that lets an empty match through
read1ToFromEmpty(p, st, res) == res

\* read1To once the search has returned res
read1ToFrom(p, st, res) ==
  IF res.kind # "ok" THEN res
  ELSE IF res.pos > p THEN res
  ELSE fail(p, Msg(st, "expected at least one character"), res.st)

read1ToParse(P, s, p, st) == read1ToFrom(p, st, readToParse(P, s, p, st))

peekParse(P, s, p, st) ==
  LET r == Substr(s, p, P.n)
  IN  IF Len(r) = P.n THEN Write(StrV(r), p + P.n, st)
      ELSE fail(p, Msg(st, "unexpected end of input"), st)

\* does string n match the input at p, character by character
Matches(n, s, p) == \A j \in 0..(Len(n) - 1) : At(n, j) = At(s, p + j)

\* several strings: the first that matches wins; a one-character string is
\* returned in a new array, any other in the shared one
strManyParse(P, s, p, st) ==
  LET hits == {i \in 1..Len(P.strs) : Matches(P.strs[i], s, p)}
  IN  IF hits = {} THEN fail(p, Msg(st, "expected one of"), st)
      ELSE LET n == P.strs[CHOOSE i \in hits : \A j \in hits : i <= j]
           IN  IF Len(n) = 1 THEN FreshSuccess(StrV(n), p + 1, st)
               ELSE Write(StrV(n), p + Len(n), st)

strParse(P, s, p, st) ==
  IF Len(P.strs) = 1
  THEN IF Matches(P.strs[1], s, p) THEN Write(StrV(P.strs[1]), p + Len(P.strs[1]), st)
       ELSE fail(p, Msg(st, "expected"), st)
  ELSE strManyParse(P, s, p, st)

\* the characters of the strings in both cases
RECURSIVE istrChars(_)
istrChars(strings) ==
  IF strings = <<>> THEN <<>>
  ELSE toLowerCase(Head(strings)) \o toUpperCase(Head(strings)) \o istrChars(Tail(strings))

\* r is what read1 over these characters returned: the run it read is looked
\* up in the list, ignoring case
istrFound(P, p, st, r) ==
  LET hits == {i \in 1..Len(P.strs) : toLowerCase(P.strs[i]) = toLowerCase(ValOf(r, r.st).s)}
  IN  IF r.kind = "fail" THEN r
      ELSE IF hits = {}
      THEN fail(p, Msg(st, IF Len(P.strs) > 1 THEN "expected one of" ELSE "expected"), r.st)
      ELSE SetVal(r, StrV(P.strs[CHOOSE i \in hits : \A j \in hits : i <= j]), r.st)

istrParse(P, s, p, st) == istrFound(P, p, st, read1Parse(read1(istrChars(P.strs)), s, p, st))

\* ----------------------------------------------------------- combinators
RECURSIVE Parse(_, _, _, _)

\* child.parse(s, p, resin): a call that is not handed a ParseNode
Untreed(st, r) == [r EXCEPT !.st.tree = st.tree]
Plainly(P, s, p, st) == Untreed(st, Parse(P, s, p, [st EXCEPT !.tree = FALSE]))

RECURSIVE altLoop(_, _, _, _, _)
RECURSIVE seqLoop(_, _, _, _, _, _)
RECURSIVE checkLoop(_, _, _, _, _)
RECURSIVE endsLoop(_, _, _, _, _)
RECURSIVE repLoop(_, _, _, _, _, _)
RECURSIVE repsepLoop(_, _, _, _, _, _)
RECURSIVE rep1sepLoop(_, _, _, _, _, _, _)
RECURSIVE toParserLoop(_, _, _, _)

optParse(P, s, p, st) ==
  LET res == Parse(P.a[1], s, p, st)
  IN  IF res.kind = "fail" THEN Write(Null, p, res.st) ELSE res

notParse(P, s, p, st) ==
  LET res == Plainly(P.a[1], s, p, st)
  IN  IF res.kind = "ok" THEN fail(p, Msg(st, "unexpected"), res.st)
      ELSE IF res.kind = "fail" THEN Write(StrV(<<>>), p, res.st)
      ELSE res

\* uninit.parse
uninitParse(P, s, p, st) == fail(p, Msg(st, "uninitialized lazy parser"), st)

\* ps.parse(...) where ps = unwrap(P): a TypeError when unwrap raises one, and
\* when it returns an object without a parse method
lazyParse(P, s, p, st) ==
  IF unwrap(P) \in {P, Raises} THEN Throw(st) ELSE Parse(unwrap(P), s, p, st)

\* the functions handed to map: what fn(v, error, s, e) returns, whether it
\* called error, and with what message
\*   span         returns [v, s, e]
\*   reject       calls error('rejected')
\*   rejectA      calls error('cannot start with a') when v is 'a', as in the
\*                test 'map with error', and returns v otherwise
\*   rejectEmpty  calls error('')
\*   raise        throws an exception
\*   first        ([a]) => a, the function of the trim wrapper of the driver
\*   unshift      r => { r[1].unshift(r[0]); return r[1] }, the function of
\*                the keypath grammar
\* unshift is what the function puts in front of the array `empty`
MapFns == {"span", "reject", "rejectA", "rejectEmpty"}
Plain(v) == [val |-> v, called |-> FALSE, err |-> "", unshift |-> <<>>, raised |-> FALSE]
Rejected(m) == [Plain(UndefinedV) EXCEPT !.called = TRUE, !.err = m]
mapFn(fn, v, s, e) ==
  CASE fn = "span" -> Plain(ListV(<<v, NumV(s), NumV(e)>>))
    [] fn = "reject" -> Rejected("rejected")
    [] fn = "rejectA" ->
         IF v = StrV(<<"a">>) THEN Rejected("cannot start with a") ELSE Plain(v)
    [] fn = "rejectEmpty" -> Rejected("")
    [] fn = "raise" -> [Plain(UndefinedV) EXCEPT !.raised = TRUE]
    [] fn = "first" -> Plain(v.l[1])
    [] fn = "unshift" ->
         IF v.l[2] = EmptyRef THEN [Plain(EmptyRef) EXCEPT !.unshift = <<v.l[1]>>]
         ELSE Plain(ListV(<<v.l[1]>> \o v.l[2].l))

\* r[0] = fn(...); a failure at r[1] when fn has left a message
mapReturn(f, p, r) ==
  IF f.raised THEN Throw(r.st)
  ELSE IF f.err # "" THEN fail(PosOf(r, r.st), f.err, SetVal(r, f.val, r.st).st)
  ELSE SetVal(r, f.val, [r.st EXCEPT !.empty = f.unshift \o @])

\* r is what the mapped parser returned
mapApply(P, p, r) ==
  IF r.kind = "ok" THEN mapReturn(mapFn(P.t, ValOf(r, r.st), p, PosOf(r, r.st)), p, r)
  ELSE r

mapParse(P, s, p, st) == mapApply(P, p, Parse(P.a[1], s, p, st))

\* the user functions of verify: what they return for the value v
\*   accept       true
\*   refuse       the string 'refused'
\*   refuseA      'must not be a' for the value 'a', true otherwise
VerifyFns == {"accept", "refuse", "refuseA"}
Accepted == "true"
verifyFn(fn, v) ==
  CASE fn = "accept" -> Accepted
    [] fn = "refuse" -> "refused"
    [] fn = "refuseA" -> IF v = StrV(<<"a">>) THEN "must not be a" ELSE Accepted

\* r is what the verified parser returned, v what the function returned
verifyReturn(v, r) == IF v = Accepted THEN r ELSE fail(PosOf(r, r.st), v, r.st)
verifyApply(P, r) == IF r.kind = "ok" THEN verifyReturn(verifyFn(P.t, ValOf(r, r.st)), r) ELSE r

verifyParse(P, s, p, st) == verifyApply(P, Parse(P.a[1], s, p, st))

\* try ps[i], ps[i + 1], ... at p; the first success is returned as it is
altLoop(ps, i, s, p, st) ==
  IF i > Len(ps) THEN fail(p, Msg(st, "expected alternate"), st)
  ELSE LET res == Parse(ps[i], s, p, st)
       IN  IF res.kind = "fail" THEN altLoop(ps, i + 1, s, p, res.st) ELSE res

\* alt that tries its parsers from the last to the first
altParseBackwards(P, s, p, st) ==
  altLoop([i \in 1..Len(P.a) |-> P.a[Len(P.a) + 1 - i]], 1, s, p, st)

\* () => ps = unwrap(parser), the init of opt(h)
init(st) == [st EXCEPT !.lazy.ps = unwrap(st.lazy.h), !.lazy.inits = @ + 1]

\* a lazy parser that keeps its first parse function
keepParse(st) == st

\* res.parse = parse
replaceParse(st) == [st EXCEPT !.lazy.replaced = TRUE]

\* res.parse of lazy(init, parse) for opt(h): init(); res.parse = parse;
\* return parse(...) at first, the function parse of opt alone afterwards
lazy(P, s, p, st) ==
  IF st.lazy.replaced THEN Parse(opt(st.lazy.ps), s, p, st)
  ELSE Parse(opt(init(st).lazy.ps), s, p, replaceParse(init(st)))

altParse(P, s, p, st) == altLoop(P.a, 1, s, p, st)

\* ps[i], ps[i + 1], ... from c on; vs holds the values read so far
seqLoop(ps, i, s, c, vs, st) ==
  IF i > Len(ps) THEN Write(ListV(vs), c, st)
  ELSE LET r == Parse(ps[i], s, c, st)
       IN  IF r.kind # "ok" THEN r
           ELSE seqLoop(ps, i + 1, s, r.pos, Append(vs, r.val), r.st)

seqParse(P, s, p, st) == seqLoop(P.a, 1, s, p, <<>>, st)

checkLoop(ps, i, s, c, st) ==
  IF i > Len(ps) THEN Write(Null, c, st)
  ELSE LET r == Plainly(ps[i], s, c, st)
       IN  IF r.kind # "ok" THEN r ELSE checkLoop(ps, i + 1, s, r.pos, r.st)

checkParse(P, s, p, st) == checkLoop(P.a, 1, s, p, st)

\* bracket(left, content, right): the content's value is remembered, then
\* written into resin after the right bracket, and resin is returned
bracketParse(P, s, p, st) ==
  LET r1 == Plainly(P.a[1], s, p, st)
  IN  IF r1.kind # "ok" THEN r1
      ELSE LET r2 == Parse(P.a[2], s, r1.pos, r1.st)
           IN  IF r2.kind # "ok" THEN r2
               ELSE LET r == r2.val
                        r3 == Plainly(P.a[3], s, r2.pos, r2.st)
                    IN  IF r3.kind # "ok" THEN r3
                        ELSE Returned([r3.st EXCEPT !.resin.val = r])

\* the first of ends[i], ends[i + 1], ... that matches at p: its index, or 0
endsLoop(ends, i, s, p, st) ==
  IF i > Len(ends) THEN [kind |-> "fail", end |-> 0, st |-> st]
  ELSE LET res == Plainly(ends[i], s, p, st)
       IN  IF res.kind = "ok" THEN [kind |-> "ok", end |-> i, st |-> res.st]
           ELSE IF res.kind = "fail" THEN endsLoop(ends, i + 1, s, p, res.st)
           ELSE [kind |-> "loop", end |-> 0, st |-> res.st]

\* bracket([end, ...], content): the content starts at resin[1]
bracketEndsParse(P, s, p, st) ==
  LET ends == SubSeq(P.a, 1, Len(P.a) - 1)
      ps == P.a[Len(P.a)]
      e == endsLoop(ends, 1, s, p, st)
  IN  IF e.kind = "loop" THEN Diverge(e.st)
      ELSE IF e.kind = "fail" THEN fail(p, Msg(st, "expected opening bracket"), e.st)
      ELSE LET res == Parse(ps, s, e.st.resin.pos, e.st)
           IN  IF res.kind # "ok" THEN res
               ELSE LET v == res.val
                        c == res.pos
                        fin == Plainly(ends[e.end], s, c, res.st)
                    IN  IF fin.kind = "loop" THEN fin
                        ELSE IF fin.kind = "fail"
                        THEN fail(c, Msg(st, "expected matching end bracket"), fin.st)
                        ELSE Returned([fin.st EXCEPT !.resin.val = v])

\* andNot with `not` tried at p, where `parser` started
andNotAtStart(P, s, p, st) ==
  LET res == Parse(P.a[1], s, p, st)
  IN  IF res.kind # "ok" THEN res
      ELSE LET np == Plainly(P.a[2], s, p, res.st)
           IN  IF np.kind = "loop" THEN np
               ELSE IF np.kind = "ok" THEN fail(p, Msg(st, "unexpected"), np.st)
               ELSE Return(res, np.st)

\* andNot(parser, not): `not` is tried where `parser` stopped, and the
\* array `parser` returned is returned when `not` fails
andNotParse(P, s, p, st) ==
  LET res == Parse(P.a[1], s, p, st)
  IN  IF res.kind # "ok" THEN res
      ELSE LET c == res.pos
               np == Plainly(P.a[2], s, c, res.st)
           IN  IF np.kind = "loop" THEN np
               ELSE IF np.kind = "ok" THEN fail(c, Msg(st, "unexpected"), np.st)
               ELSE Return(res, np.st)

outerParse(P, s, p, st) ==
  LET res == Parse(P.a[1], s, p, st)
  IN  IF res.kind # "ok" THEN res
      ELSE SetVal(res, StrV(Substring(s, p, res.pos)), res.st)

\* while (l < len): read to the next sigil or the end, try the parser there,
\* step over one character when it fails. Yields the final l and state.
\* the rest of a pass: the parser has returned sub at l
toParserSub(P, s, l, sub) ==
  IF sub.kind = "loop" THEN [kind |-> "loop", l |-> l, st |-> sub.st]
  ELSE IF sub.kind = "fail" THEN toParserLoop(P, s, l + 1, sub.st)
  ELSE [kind |-> "ok", l |-> l, st |-> sub.st]

\* a pass from `l = sub[1]` on, sub being what stop.parse returned
toParserStop(P, s, sub) == toParserSub(P, s, sub.pos, Plainly(P.a[1], s, sub.pos, sub.st))

toParserLoop(P, s, l, st) ==
  IF l >= Len(s) THEN [kind |-> "ok", l |-> l, st |-> st]
  ELSE toParserStop(P, s, readToParse(readTo(P.x, "end"), s, l, st))

\* after the loop has ended as e
readToParserEnd(s, p, e) ==
  IF e.kind = "loop" THEN Diverge(e.st)
  ELSE Write(StrV(Substring(s, p, e.l)), e.l, e.st)

readToParserParse(P, s, p, st) == readToParserEnd(s, p, toParserLoop(P, s, p, st))

read1ToParserEnd(s, p, st, e) ==
  IF e.kind = "loop" THEN Diverge(e.st)
  ELSE IF e.l = p THEN fail(p, Msg(st, "expected at least one character"), e.st)
  ELSE Write(StrV(Substring(s, p, e.l)), e.l, e.st)

read1ToParserParse(P, s, p, st) == read1ToParserEnd(s, p, st, toParserLoop(P, s, p, st))

\* ------------------------------------------------------------ repetition
\* The loops of rep, rep1, repsep and rep1sep have no exit but a failure of
\* the element (or separator). What a pass does depends on the input, on the
\* position c and on resin[1] alone (no parser branches on a value), so the
\* loop never ends once it comes back to a pair it has been in. `seen`
\* collects the pairs met so far.

\* the while (1) loop of rep and rep1, entered at c with the values vs
repLoop(ps, s, c, vs, st, seen) ==
  IF <<c, st.resin.pos>> \in seen THEN Diverge(st)
  ELSE LET res == Parse(ps, s, c, st)
       IN  IF res.kind = "loop" THEN res
           ELSE IF res.kind = "ok"
           THEN repLoop(ps, s, res.pos, Append(vs, res.val), res.st, seen \cup {<<c, st.resin.pos>>})
           ELSE Write(ListV(vs), c, res.st)

repParse(P, s, p, st) ==
  LET res == Parse(P.a[1], s, p, st)
  IN  IF res.kind = "loop" THEN res
      ELSE IF res.kind = "fail" THEN Write(EmptyRef, p, res.st)
      ELSE repLoop(P.a[1], s, res.pos, <<res.val>>, res.st, {})

rep1Parse(P, s, p, st) ==
  LET res == Parse(P.a[1], s, p, st)
  IN  IF res.kind = "loop" THEN res
      ELSE IF res.kind = "fail" THEN fail(p, Msg(st, "expected at least one item"), res.st)
      ELSE repLoop(P.a[1], s, res.pos, <<res.val>>, res.st, {})

\* repsep that lets a missing separator pass whatever the trail
repsepNoSepLenient(P, m, c, vs, st, r) == Write(ListV(vs), c, r.st)

\* the separator has failed after an element that started at m and ended at
\* c: a failure when the trail is 'require', the values vs and c otherwise
repsepNoSep(P, m, c, vs, st, r) ==
  IF P.t = "require" THEN fail(m, Msg(st, "expected separator"), r.st)
  ELSE Write(ListV(vs), c, r.st)

\* repsep that gives up nothing for a trailing separator
repsepEndAllow(P, c, vs, st, res) == Write(ListV(vs), c, res.st)

\* the element has failed at c, just after a separator: a failure when the
\* trail is 'disallow', the values so far and c otherwise
repsepEnd(P, c, vs, st, res) ==
  IF P.t = "disallow" /\ Len(vs) > 0
  THEN fail(c, Msg(st, "unexpected separator"), res.st)
  ELSE Write(ListV(vs), c, res.st)

\* the while (1) loop of repsep, entered at c, just after a separator
repsepLoop(P, s, c, vs, st, seen) ==
  IF <<c, st.resin.pos>> \in seen THEN Diverge(st)
  ELSE LET res == Parse(P.a[1], s, c, st)
       IN  IF res.kind = "loop" THEN res
           ELSE IF res.kind = "ok"
           THEN LET m == c
                    c1 == res.pos
                    rr == res.val
                    r == Plainly(P.a[2], s, c1, res.st)
                IN  IF r.kind = "loop" THEN r
                    ELSE IF r.kind = "fail"
                    THEN repsepNoSep(P, m, c1, Append(vs, rr), st, r)
                    ELSE repsepLoop(P, s, r.pos, Append(vs, rr), r.st, seen \cup {<<c, st.resin.pos>>})
           ELSE repsepEnd(P, c, vs, st, res)

repsepParse(P, s, p, st) ==
  LET res == Parse(P.a[1], s, p, st)
  IN  IF res.kind = "loop" THEN res
      ELSE IF res.kind = "fail" THEN Write(EmptyRef, p, res.st)
      ELSE LET rr == res.val
               m == p
               c == res.pos
               r == Plainly(P.a[2], s, c, res.st)
           IN  IF r.kind = "loop" THEN r
               ELSE IF r.kind = "fail"
               THEN repsepNoSep(P, m, c, <<rr>>, st, r)
               ELSE repsepLoop(P, s, r.pos, <<rr>>, r.st, {})

\* rep1sep as it was before 0.0.4: the trailing separator is consumed
rep1sepEndConsume(P, c, l, vs, res) == Write(ListV(vs), c, res.st)

\* the element has failed at c, just after a separator: the values so far,
\* and l when the trail is 'disallow', c otherwise
rep1sepEnd(P, c, l, vs, res) ==
  IF P.t = "disallow" /\ Len(vs) > 0 THEN Write(ListV(vs), l, res.st)
  ELSE Write(ListV(vs), c, res.st)

\* the while (1) loop of rep1sep, entered at c, just after a separator;
\* l is the position after the last element
rep1sepLoop(P, s, c, l, vs, st, seen) ==
  IF <<c, l, st.resin.pos>> \in seen THEN Diverge(st)
  ELSE LET res == Parse(P.a[1], s, c, st)
       IN  IF res.kind = "loop" THEN res
           ELSE IF res.kind = "ok"
           THEN LET c1 == res.pos
                    r == Plainly(P.a[2], s, c1, res.st)
                IN  IF r.kind = "loop" THEN r
                    ELSE IF r.kind = "fail"
                    THEN IF P.t = "require" THEN fail(c1, Msg(st, "expected separator"), r.st)
                         ELSE Write(ListV(Append(vs, res.val)), c1, r.st)
                    ELSE rep1sepLoop(P, s, r.pos, c1, Append(vs, res.val), r.st,
                                     seen \cup {<<c, l, st.resin.pos>>})
           ELSE rep1sepEnd(P, c, l, vs, res)

rep1sepParse(P, s, p, st) ==
  LET res == Parse(P.a[1], s, p, st)
  IN  IF res.kind = "loop" THEN res
      ELSE IF res.kind = "fail" THEN fail(p, Msg(st, "expected at least one item"), res.st)
      ELSE LET c == res.pos
               r == Plainly(P.a[2], s, c, res.st)
           IN  IF r.kind = "loop" THEN r
               ELSE IF r.kind = "fail"
               THEN IF P.t = "require" THEN fail(c, Msg(st, "expected separator"), r.st)
                    ELSE Write(ListV(<<res.val>>), c, r.st)
               ELSE rep1sepLoop(P, s, r.pos, c, <<res.val>>, r.st, {})

\* ---------------------------------------------------------------- parse
\* openNode(p, name): the node starts without children
openNode(st) == [st EXCEPT !.nodes = <<>>]

\* the parsers that open a node when they are handed one
Opening ==
  {"opt", "alt", "seq", "check", "bracket", "bracketEnds", "andNot", "outer", "map", "verify",
   "readToParser", "read1ToParser", "rep", "rep1", "repsep", "rep1sep"}

\* r is what the call of P at p returned: opt, rep and repsep close their
\* node when their first call of the child has succeeded, every other parser
\* when it succeeds
Closes(P, s, p, st, r) ==
  /\ r.kind = "ok"
  /\ P.k \in {"opt", "rep", "repsep"} => Parse(P.a[1], s, p, openNode(st)).kind = "ok"

\* closeNode(node, tree, res): node.end = res[1]; tree.children.push(node);
\* a node that is not closed is dropped with its children
closeNode(q, st, r) ==
  [r EXCEPT !.st.nodes =
     Append(st.nodes, [start |-> q, end |-> PosOf(r, r.st), children |-> r.st.nodes])]
Noded(P, s, p, st, r) ==
  IF Closes(P, s, p, st, r) THEN closeNode(p, st, r) ELSE [r EXCEPT !.st.nodes = st.nodes]

RECURSIVE parse(_, _, _, _)

\* P.parse(s, p, resin, tree)
Parse(P, s, p, st) ==
  IF st.tree /\ P.k \in Opening THEN Noded(P, s, p, st, parse(P, s, p, openNode(st)))
  ELSE parse(P, s, p, st)

\* the body of P.parse
parse(P, s, p, st) ==
  CASE P.k = "skip" -> skipParse(P, s, p, st)
    [] P.k = "skip1" -> skip1Parse(P, s, p, st)
    [] P.k = "read" -> readParse(P, s, p, st)
    [] P.k = "read1" -> read1Parse(P, s, p, st)
    [] P.k = "chars" -> charsParse(P, s, p, st)
    [] P.k = "notchars" -> notcharsParse(P, s, p, st)
    [] P.k = "readTo" -> readToParse(P, s, p, st)
    [] P.k = "read1To" -> read1ToParse(P, s, p, st)
    [] P.k = "peek" -> peekParse(P, s, p, st)
    [] P.k = "str" -> strParse(P, s, p, st)
    [] P.k = "istr" -> istrParse(P, s, p, st)
    [] P.k \in {"handle", "undefined", "falsy"} -> lazyParse(P, s, p, st)
    [] P.k = "uninit" -> uninitParse(P, s, p, st)
    [] P.k = "map" -> mapParse(P, s, p, st)
    [] P.k = "verify" -> verifyParse(P, s, p, st)
    [] P.k = "opt" -> optParse(P, s, p, st)
    [] P.k = "optH" -> lazy(P, s, p, st)
    [] P.k = "not" -> notParse(P, s, p, st)
    [] P.k = "alt" -> altParse(P, s, p, st)
    [] P.k = "seq" -> seqParse(P, s, p, st)
    [] P.k = "check" -> checkParse(P, s, p, st)
    [] P.k = "bracket" -> bracketParse(P, s, p, st)
    [] P.k = "bracketEnds" -> bracketEndsParse(P, s, p, st)
    [] P.k = "andNot" -> andNotParse(P, s, p, st)
    [] P.k = "outer" -> outerParse(P, s, p, st)
    [] P.k = "readToParser" -> readToParserParse(P, s, p, st)
    [] P.k = "read1ToParser" -> read1ToParserParse(P, s, p, st)
    [] P.k = "rep" -> repParse(P, s, p, st)
    [] P.k = "rep1" -> rep1Parse(P, s, p, st)
    [] P.k = "repsep" -> repsepParse(P, s, p, st)
    [] P.k = "rep1sep" -> rep1sepParse(P, s, p, st)

\* ---------------------------------------------------- the parsers explored
\* the characters the trim option skips
Whitespace == <<" ", "\t", "\r", "\n">>

SP == <<" ">>
A == <<"a">>
Foo == <<"f", "o", "o">>

\* "foo foo foo " and "foo foo foo" of the repsep tests
FooTrail == Foo \o SP \o Foo \o SP \o Foo \o SP
FooNoTrail == Foo \o SP \o Foo \o SP \o Foo

\* str('a', '  ') returns 'a' in a new array and '  ' in the shared one
Primitives ==
  { str(<<A>>), str(<<A \o SP>>), str(<<A \o SP \o A>>), str(<<A, SP \o SP>>),
    str(<<SP \o A, SP>>), str(<<SP>>),
    skip(SP), skip1(SP), read(A), read1(<<" ", "a", " ">>),
    chars(1, A), chars(2, <<>>), notchars(1, SP),
    readTo(SP, "end"), readTo(SP, ""), read1To(SP, "end"), read1To(SP, ""),
    peek(1), peek(2) }

\* the children handed to the combinators: parsers that write the shared
\* array, parsers that return a new one, parsers that match nothing
Strs == {str(<<A>>), str(<<A, SP \o SP>>), str(<<SP>>)}
Kids == Strs \cup {skip(SP), read(A), read1To(SP, "end")}
Lefts == {str(<<A>>), str(<<A, SP \o SP>>), skip(SP)}
Seps == Strs \cup {skip(SP)}

Pairs == {seq(<<k1, k2>>) : k1 \in Strs, k2 \in Strs}

\* the children of the rep that is followed pass by pass: the kids, the
\* optional kids, and `seq(item, skip(' '))` as in the tests
RepKids ==
  Kids \cup {opt(k) : k \in Kids} \cup {seq(<<k, skip(SP)>>) : k \in {str(<<A>>), str(<<A, SP \o SP>>), read(A)}}

\* istr('a'), istr('A'), istr('Aa'), istr('a', 'aA')
IStrs == {istr(<<A>>), istr(<<<<"A">>>>), istr(<<<<"A", "a">>>>), istr(<<A, <<"a", "A">>>>)}

\* lazy parsers handed to combinators before and after their assignment
Lazies == {unassigned, undefinedParser, falsy, handle(str(<<A>>))}
LazyUses ==
  {opt(h) : h \in Lazies} \cup {not(h) : h \in Lazies} \cup {map(h, "span") : h \in Lazies}
    \cup {alt(<<h, k>>) : h \in Lazies, k \in {str(<<A>>), skip(SP)}}

Trails == {"allow", "disallow", "require"}
Omitted == "omitted"

\* the default of the trail parameter of repsep and rep1sep
DefaultTrail == "disallow"
Trail(arg) == IF arg = Omitted THEN DefaultTrail ELSE arg

\* ----------------------------------------------------------------- state
VARIABLES
  input,         \* s, the string being parsed
  start,         \* p, the position the parse starts at
  target,        \* the parser whose parse method is called
  trailArg,      \* the trail argument the parser was constructed with
  pc,            \* "idle", "rep" (inside the loop of rep), "running", "done",
                 \* "thrown" (left by an exception)
  resin,         \* the success array handed to the parser
  cause,         \* _cause
  latest,        \* _latestCause
  detailedFail,  \* the detail bits
  result,        \* the outcome of the call: kind, and the returned array; in a
                 \* call of a ParseFn, what the root parser returned
  c,             \* rep: the current position
  vs,            \* rep: the values collected (seq)
  pass,          \* rep: the parity of the number of passes of its loop
  empty,         \* what the array `empty` of the rep or repsep of the grammar holds
  closure,       \* the variables of a ParseFn: parser, mps, oerror
  options,       \* the options of the last call of the ParseFn
  ret,           \* what the last call of the ParseFn returned
  prev,          \* what the call before returned, when the last call repeated it
  calls,         \* the number of calls of the ParseFn
  err,           \* the ParseError of the last failure as getParseError renders it
  fails,         \* the positions passed to fail() since the last resetLatestCause()
  lazyRes        \* the state of the lazy combinator opt(h) and of its handle h

driver == <<closure, options, ret, prev, calls, err>>

vars ==
  <<input, start, target, trailArg, pc, resin, cause, latest, detailedFail, result, c, vs, pass,
    empty, driver, fails, lazyRes>>

\* ParseOptions: given is FALSE when no options object is passed at all; a
\* member is "true", "false", or absent from the object
Absent == "absent"
NoOptions ==
  [given |-> FALSE, trim |-> Absent, consumeAll |-> Absent, detailed |-> Absent, throw |-> Absent,
   tree |-> Absent]
Options(t, ca, d) == [NoOptions EXCEPT !.given = TRUE, !.trim = t, !.consumeAll = ca, !.detailed = d]
Throwing(o) == [o EXCEPT !.given = TRUE, !.throw = "true"]
Treed(o) == [o EXCEPT !.given = TRUE, !.tree = "true"]

\* what a ParseFn returns: the parsed value, the ParseNode in tree mode
\* (kind "node"), or a ParseError, thrown under the throw option; the kind
\* is "throw" for any other exception
\* the latest member of a ParseError is the position and message of a second
\* ParseError, or absent
NoLatest == [has |-> FALSE, position |-> 0, message |-> ""]
\* a ParseNode: start, end and children
NoNode == [start |-> 0, end |-> 0, children |-> <<>>]
NoReturn ==
  [kind |-> "none", val |-> Null, position |-> 0, message |-> "", thrown |-> FALSE,
   latest |-> NoLatest, node |-> NoNode]
Value(v) == [NoReturn EXCEPT !.kind = "value", !.val = v]
ParseError(cs) == [NoReturn EXCEPT !.kind = "error", !.position = cs.pos, !.message = cs.msg]

\* String.prototype.lastIndexOf(ch, from) and indexOf(ch, from): -1 when ch
\* is not found; a negative from counts as 0
lastIndexOf(s, ch, from) ==
  LET hits == {i \in 0..Min(Max(from, 0), Len(s) - 1) : At(s, i) = ch}
  IN  IF hits = {} THEN -1 ELSE CHOOSE i \in hits : \A j \in hits : j <= i
indexOf(s, ch, from) ==
  LET hits == {i \in Max(from, 0)..(Len(s) - 1) : At(s, i) = ch}
  IN  IF hits = {} THEN -1 ELSE CHOOSE i \in hits : \A j \in hits : i <= j

\* the while loop of getLineNum, n lines counted so far
RECURSIVE getLineNumLoop(_, _, _)
getLineNumLoop(s, pos, n) ==
  IF lastIndexOf(s, "\n", pos) <= 0 THEN n
  ELSE getLineNumLoop(s, lastIndexOf(s, "\n", pos) - 1, n + 1)

getLineNum(s, pos) == getLineNumLoop(s, pos, 1)

\* the first loop of getParseError: the lines above, from the line break n
\* back, t the line break before n
RECURSIVE linesAbove(_, _, _, _, _)
linesAbove(s, n, t, i, context) ==
  IF i < context /\ n # -1
  THEN linesAbove(s, t, lastIndexOf(s, "\n", t - 1), i + 1, context) \o <<Substring(s, t + 1, n)>>
  ELSE <<>>

\* n = input.indexOf('\n', t + 1); if (n === -1 && t < input.length) n = input.length
lineEnd(s, t) ==
  IF indexOf(s, "\n", t + 1) = -1 /\ t < Len(s) THEN Len(s) ELSE indexOf(s, "\n", t + 1)

\* the second loop: the source line and the lines below
RECURSIVE linesBelow(_, _, _, _, _)
linesBelow(s, t, n, i, context) ==
  IF i <= context /\ n # -1
  THEN <<Substring(s, t + 1, n)>> \o linesBelow(s, n, lineEnd(s, n), i + 1, context)
  ELSE <<>>

\* a space, or a tab where the source has one, for each of the len characters
marker(source, len) ==
  [i \in 1..Max(len, 0) |-> IF At(source, i - 1) = "\t" THEN "\t" ELSE " "] \o <<"^", "-", "-">>

\* a rendering whose column counts from 0
renderedFromZero(s, pos, first, above, below) ==
  [context |-> above \o below,
   column |-> pos - first - 1,
   line |-> getLineNum(s, pos),
   source |-> (above \o below)[Len(above) + 1],
   marker |-> marker((above \o below)[Len(above) + 1], pos - first - 1)]

\* the members of the ParseError for a failure at pos that depend on the
\* input alone; first is the last line break at or before pos
rendered(s, pos, first, above, below) ==
  [context |-> above \o below,
   column |-> pos - first,
   line |-> getLineNum(s, pos),
   source |-> (above \o below)[Len(above) + 1],
   marker |-> marker((above \o below)[Len(above) + 1], pos - first - 1)]

getParseError(s, pos, context) ==
  rendered(s, pos, lastIndexOf(s, "\n", pos),
           linesAbove(s, lastIndexOf(s, "\n", pos),
                      lastIndexOf(s, "\n", lastIndexOf(s, "\n", pos) - 1), 0, context),
           linesBelow(s, lastIndexOf(s, "\n", pos),
                      lineEnd(s, lastIndexOf(s, "\n", pos)), 0, context))

NoError == [context |-> <<>>, column |-> 0, line |-> 0, source |-> <<>>, marker |-> <<>>]

NoParser == Parser("none", <<>>, <<>>, <<>>, 0, "")
NoResult == [kind |-> "none", val |-> Null, pos |-> 0]
NoClosure == [parser |-> NoParser, mps |-> NoParser, oerror |-> NoOptions]

St ==
  [resin |-> resin, cause |-> cause, latest |-> latest, detailedFail |-> detailedFail,
   empty |-> empty, tree |-> FALSE, nodes |-> <<>>, lazy |-> lazyRes]

\* the shared state a call starts from
St0 ==
  [resin |-> NewSuccess, cause |-> NoCause, latest |-> NoCause, detailedFail |-> detailedFail,
   empty |-> <<>>, tree |-> FALSE, nodes |-> <<>>, lazy |-> lazyRes]

Init ==
  /\ \/ input \in Inputs /\ start \in 0..Len(input)
     \/ input \in {FooTrail, FooNoTrail} /\ start = 0
     \/ input \in CaseInputs /\ start = 0
  /\ target = NoParser
  /\ trailArg = ""
  /\ pc = "idle"
  /\ resin = NewSuccess
  /\ cause = NoCause
  /\ latest = NoCause
  /\ detailedFail \in {0, 1}
  /\ result = NoResult
  /\ c = 0
  /\ vs = <<>>
  /\ pass = 0
  /\ empty = <<>>
  /\ closure = NoClosure
  /\ options = NoOptions
  /\ ret = NoReturn
  /\ prev = NoReturn
  /\ calls = 0
  /\ err = NoError
  /\ fails = <<>>
  /\ lazyRes = NoLazy

\* the shared state after a parse that left it as st
Leave(st) ==
  /\ resin' = st.resin
  /\ cause' = st.cause
  /\ latest' = st.latest
  /\ empty' = st.empty
  /\ lazyRes' = st.lazy

\* the call has returned r, or runs on for ever when r is a divergence
Returns(r) ==
  /\ Leave(r.st)
  /\ IF r.kind = "loop"
     THEN pc' = "running" /\ result' = NoResult
     ELSE IF r.kind = "throw"
     THEN pc' = "thrown" /\ result' = [NoResult EXCEPT !.kind = "throw"]
     ELSE pc' = "done" /\ result' = [kind |-> r.kind, val |-> Deref(r.val, r.st.empty), pos |-> r.pos]

\* target.parse(input, start, resin) from the first statement to the return
Call(P, arg) ==
  /\ target' = P
  /\ trailArg' = arg
  /\ Returns(Parse(P, input, start, St))
  /\ UNCHANGED <<input, start, detailedFail, c, vs, pass, driver, fails>>

RunPrimitive == pc = "idle" /\ \E P \in Primitives : Call(P, "")
RunIstr == pc = "idle" /\ \E P \in IStrs : Call(P, "")
RunMap == pc = "idle" /\ \E k \in Kids, fn \in MapFns : Call(map(k, fn), "")
RunVerify == pc = "idle" /\ \E k \in Kids, fn \in VerifyFns : Call(verify(k, fn), "")
RunLazy == pc = "idle" /\ \E P \in LazyUses : Call(P, "")
RunOpt == pc = "idle" /\ \E k \in Kids : Call(opt(k), "")
RunNot == pc = "idle" /\ \E k \in Kids : Call(not(k), "")
RunAlt == pc = "idle" /\ \E k1 \in Kids, k2 \in Kids : Call(alt(<<k1, k2>>), "")
RunSeq ==
  pc = "idle" /\ \E k1 \in Kids, k2 \in Kids \cup {bracket(l, k, r) : l \in Strs, k \in Strs, r \in Strs} :
    Call(seq(<<k1, k2>>), "")
RunCheck == pc = "idle" /\ \E k1 \in Kids, k2 \in Kids : Call(check(<<k1, k2>>), "")
RunBracket == pc = "idle" /\ \E l \in Lefts, k \in Kids, r \in Strs : Call(bracket(l, k, r), "")
RunBracketEnds ==
  pc = "idle" /\ \E e1 \in Strs, e2 \in Strs, k \in Kids : Call(bracketEnds(<<e1, e2>>, k), "")
RunAndNot == pc = "idle" /\ \E k \in Kids, n \in Kids \cup Pairs : Call(andNot(k, n), "")
RunOuter == pc = "idle" /\ \E k \in Kids \cup Pairs : Call(outer(k), "")
RunReadToParser == pc = "idle" /\ \E k \in Kids, x \in {SP, A} : Call(readToParser(x, k), "")
RunRead1ToParser == pc = "idle" /\ \E k \in Kids, x \in {SP, A} : Call(read1ToParser(x, k), "")
RunRep1 == pc = "idle" /\ \E k \in Kids \cup Pairs : Call(rep1(k), "")
RunRepsep ==
  pc = "idle" /\ \E k \in Kids, sep \in Seps, arg \in Trails \cup {Omitted} :
    Call(repsep(k, sep, Trail(arg)), arg)
RunRep1sep ==
  pc = "idle" /\ \E k \in Kids, sep \in Seps, arg \in Trails \cup {Omitted} :
    Call(rep1sep(k, sep, Trail(arg)), arg)

\* rep returns the values vs and the position q
RepReturn(q, st) ==
  /\ Returns(Write(IF vs = <<>> THEN EmptyRef ELSE ListV(vs), q, st))
  /\ UNCHANGED <<c, vs, pass>>

\* the list keeps its first RepCap values: no terminating run is that long
RepCap == MaxLen + 2
Push(list, v) == IF Len(list) < RepCap THEN Append(list, v) ELSE list

\* rep goes on from the success res of its child
RepOn(res) ==
  /\ Leave(res.st)
  /\ c' = res.pos
  /\ vs' = Push(vs, res.val)
  /\ pass' = 1 - pass
  /\ pc' = "rep"
  /\ UNCHANGED result

\* the child of rep has returned res at position q
RepChild(res, q) == IF res.kind = "ok" THEN RepOn(res) ELSE RepReturn(q, res.st)

\* rep, statement by statement: the unrolled first pass ...
RepStart ==
  /\ pc = "idle"
  /\ \E k \in RepKids :
       /\ target' = rep(k)
       /\ \E res \in {Parse(k, input, start, St)} : RepChild(res, start)
  /\ UNCHANGED <<input, start, trailArg, detailedFail, driver, fails>>

\* ... and one pass of its while (1) loop
RepIterate ==
  /\ pc = "rep"
  /\ \E res \in {Parse(target.a[1], input, c, St)} : RepChild(res, c)
  /\ UNCHANGED <<input, start, target, trailArg, detailedFail, driver, fails>>

Next ==
  \/ RunPrimitive
  \/ RunIstr
  \/ RunMap
  \/ RunVerify
  \/ RunLazy
  \/ RunOpt
  \/ RunNot
  \/ RunAlt
  \/ RunSeq
  \/ RunCheck
  \/ RunBracket
  \/ RunBracketEnds
  \/ RunAndNot
  \/ RunOuter
  \/ RunReadToParser
  \/ RunRead1ToParser
  \/ RepStart
  \/ RepIterate
  \/ RunRep1
  \/ RunRepsep
  \/ RunRep1sep

Spec == Init /\ [][Next]_vars

\* rep alone, with its loop running on whenever it can
RepNext == RepStart \/ RepIterate
RepSpec == Init /\ [][RepNext]_vars /\ WF_vars(RepIterate)

\* ------------------------------------------------------------ the driver
\* the largest number of calls of one ParseFn that is followed
MaxCalls == 2

\* 'f' in o, and o && o.f
Has(o, f) == o.given /\ o[f] # Absent
Truthy(o, f) == o.given /\ o[f] = "true"

\* (error.detailed ? 1 : 0): the causes bit is left out of the model
bits(o) == IF o.detailed = "true" THEN 1 ELSE 0

\* shared.map(shared.seq(parser, shared.skip(' \t\r\n')), ([a]) => a)
trimmed(parser) == map(seq(<<parser, skip(Whitespace)>>), "first")

\* the grammar of src/keypath.ts in small: 'a' for an identifier, ' a' for
\* a dot path; and the same with a repsep
Keypath == map(seq(<<str(<<A>>), rep(str(<<SP \o A>>))>>), "unshift")
KeypathSep == map(seq(<<str(<<A>>), repsep(str(<<A>>), str(<<SP>>), "allow")>>), "unshift")

\* the parsers wrapped in a ParseFn, and the options they are wrapped with
Roots ==
  {read1(A), Keypath, KeypathSep, unassigned, handle(read1(A)), opt(unassigned),
   map(read1(A), "raise")}
FnOptions ==
  {NoOptions, Options("true", Absent, Absent), Options(Absent, "true", Absent),
   Options(Absent, "true", "true"), Throwing(Options(Absent, Absent, "true"))}
CallOptions ==
  {NoOptions, Options(Absent, Absent, Absent),
   Options("true", Absent, Absent), Options("false", Absent, Absent),
   Options(Absent, "true", Absent), Options(Absent, "false", Absent),
   Options("true", "true", Absent), Options(Absent, "true", "true"),
   Options("true", "true", "true"),
   Throwing(NoOptions), Throwing(Options(Absent, "true", "true"))}

\* the inputs handed to a ParseFn: 'a' with and without white space around it
FnInputs == {<<>>, A, A \o SP, SP \o A, A \o SP \o A, SP \o A \o SP}

\* parser(root, oerror)
DriverInit ==
  /\ input = <<>>
  /\ start = 0
  /\ target = NoParser
  /\ trailArg = ""
  /\ pc = "fn"
  /\ resin = NewSuccess
  /\ cause = NoCause
  /\ latest = NoCause
  /\ detailedFail \in {0, 1}
  /\ result = NoResult
  /\ c = 0
  /\ vs = <<>>
  /\ pass = 0
  /\ empty = <<>>
  /\ \E root \in Roots, o \in FnOptions :
       closure = [parser |-> root, mps |-> NoParser, oerror |-> o]
  /\ options = NoOptions
  /\ ret = NoReturn
  /\ prev = NoReturn
  /\ calls = 0
  /\ err = NoError
  /\ fails = <<>>
  /\ lazyRes = NoLazy

\* the options in effect in a call with the options error
Throws(error) == IF Has(error, "throw") THEN error.throw = "true" ELSE Truthy(closure.oerror, "throw")
Trim(error) == IF Has(error, "trim") THEN error.trim = "true" ELSE Truthy(closure.oerror, "trim")
ConsumeAll(error) ==
  IF Has(error, "consumeAll") THEN error.consumeAll = "true"
  ELSE Truthy(closure.oerror, "consumeAll")
Detail(error) ==
  IF error.given THEN bits(error) ELSE IF closure.oerror.given THEN bits(closure.oerror) ELSE 0

ConsumedOnly(n) == "expected to consume all input, but only " \o ToString(n) \o " chars consumed"

\* a consumeAll check that reports the end of the input
checkConsumedAtEnd(r, s, d, consume, g) ==
  IF r.kind \in {"throw", "loop"} THEN r
  ELSE IF r.kind = "ok" /\ consume /\ r.pos < Len(s)
  THEN fail(Len(s), IF d % 2 = 1 THEN ConsumedOnly(r.pos) ELSE "", [r.st EXCEPT !.detailedFail = g])
  ELSE [r EXCEPT !.st.detailedFail = g]

\* the consumeAll check on what the root parser returned, after the detail
\* bits are back at g; an exception leaves the bits as they were set
checkConsumed(r, s, d, consume, g) ==
  IF r.kind \in {"throw", "loop"} THEN r
  ELSE IF r.kind = "ok" /\ consume /\ r.pos < Len(s)
  THEN fail(r.pos, IF d % 2 = 1 THEN ConsumedOnly(r.pos) ELSE "", [r.st EXCEPT !.detailedFail = g])
  ELSE [r EXCEPT !.st.detailedFail = g]

\* findLatestCause(cause) for a cause without inner causes: the shared latest
\* cause or the cause itself
findLatestCause(st) ==
  IF st.latest.pos >= st.cause.pos /\ st.latest.msg # st.cause.msg THEN "_latestCause"
  ELSE "cause"

\* if (cause !== latest) err.latest = getParseError(latest, input, ctx)
Latest(st) ==
  IF findLatestCause(st) # "cause"
  THEN [has |-> TRUE, position |-> st.latest.pos, message |-> st.latest.msg]
  ELSE NoLatest

\* closeNode(node, null, res) for the node opened at 0
rootNode(r) == [start |-> 0, end |-> PosOf(r, r.st), children |-> r.st.nodes]

\* what a successful call returns in tree mode: the root node; with trim
\* node.children[0].children[0], and a TypeError when there is none
Grown(r, trim) ==
  IF ~trim THEN [NoReturn EXCEPT !.kind = "node", !.node = rootNode(r)]
  ELSE IF r.st.nodes = <<>> THEN [NoReturn EXCEPT !.kind = "throw"]
  ELSE IF r.st.nodes[1].children = <<>> THEN [NoReturn EXCEPT !.kind = "throw"]
  ELSE [NoReturn EXCEPT !.kind = "node", !.node = r.st.nodes[1].children[1]]

\* the ParseFn returns: the value or the node, the ParseError, or the
\* exception; it does not return when the root parser runs on for ever
Finish(r, s) ==
  /\ Leave(r.st)
  /\ err' = IF r.kind = "fail" THEN getParseError(s, r.st.cause.pos, 0) ELSE NoError
  /\ detailedFail' = r.st.detailedFail
  /\ ret' = IF r.kind = "ok"
            THEN IF r.st.tree THEN Grown(r, Trim(options')) ELSE Value(Deref(r.val, r.st.empty))
            ELSE IF r.kind = "fail"
            THEN [ParseError(r.st.cause) EXCEPT !.thrown = Throws(options'), !.latest = Latest(r.st)]
            ELSE IF r.kind = "throw" THEN [NoReturn EXCEPT !.kind = "throw"]
            ELSE NoReturn
  /\ pc' = IF r.kind = "loop" THEN "running" ELSE "returned"

\* r is what the root parser returned
Conclude(r, s, d, consume, g) ==
  /\ result' = [kind |-> r.kind, val |-> Deref(r.val, r.st.empty), pos |-> r.pos]
  /\ Finish(checkConsumed(r, s, d, consume, g), s)

\* the state the root parser starts from: a new success array, and the latest
\* cause reset when the messages bit is on
Entry(d) ==
  [resin |-> NewSuccess, cause |-> cause, latest |-> IF d % 2 = 1 THEN NoCause ELSE latest,
   detailedFail |-> d, empty |-> empty, tree |-> FALSE, nodes |-> <<>>, lazy |-> lazyRes]

\* mps || (mps = unwrap(parser))
Cached(parser) == IF closure.mps = NoParser THEN unwrap(parser) ELSE closure.mps

\* parse(input, error) of the ParseFn, from the first statement to the return
ParseFn(s, error, parser, p) ==
  /\ input' = s
  /\ options' = error
  /\ start' = p
  /\ closure' = [closure EXCEPT !.parser = parser,
                                !.mps = IF Cached(parser) = Raises THEN NoParser ELSE Cached(parser)]
  /\ target' = Cached(parser)
  /\ Conclude(Parse(Cached(parser), s, p, [Entry(Detail(error)) EXCEPT !.tree = Truthy(error, "tree")]), s,
              Detail(error), ConsumeAll(error), detailedFail)
  /\ calls' = calls + 1
  /\ UNCHANGED <<trailArg, c, vs, pass, fails>>

\* startSpace.exec(input)[0].length
leading(s) == seekWhileChar(s, 0, charList(Whitespace))

CallFn(s, error) ==
  IF Trim(error) THEN ParseFn(s, error, trimmed(closure.parser), leading(s))
  ELSE ParseFn(s, error, closure.parser, 0)

\* a call with any input and options
FnCall ==
  /\ calls < MaxCalls
  /\ \E s \in FnInputs, error \in CallOptions : CallFn(s, error)
  /\ prev' = NoReturn

\* the last call once more, with the same input and options
FnCallAgain ==
  /\ calls >= 1
  /\ calls < MaxCalls
  /\ CallFn(input, options)
  /\ prev' = ret

DriverNext == FnCall \/ FnCallAgain

DriverSpec == DriverInit /\ [][DriverNext]_vars


\* --------------------------------------------------- rendering an error
\* inputs with line breaks and tabs, and the positions of a failure in them
LinedInputs == UNION {[1..n -> {"a", "\n", "\t"}] : n \in 0..MaxLen}
ContextLines == {0, 1}

ErrorInit ==
  /\ input \in LinedInputs
  /\ start \in 0..Len(input)
  /\ target = NoParser
  /\ trailArg = ""
  /\ pc = "failed"
  /\ resin = NewSuccess
  /\ cause = [NoCause EXCEPT !.pos = start]
  /\ latest = NoCause
  /\ detailedFail = 0
  /\ result = NoResult
  /\ c = 0
  /\ vs = <<>>
  /\ pass = 0
  /\ empty = <<>>
  /\ closure = NoClosure
  /\ options = NoOptions
  /\ ret = NoReturn
  /\ prev = NoReturn
  /\ calls = 0
  /\ err = NoError
  /\ fails = <<>>
  /\ lazyRes = NoLazy

\* getParseError(getCause(), input, context)
Render ==
  /\ pc = "failed"
  /\ \E context \in ContextLines :
       /\ err' = getParseError(input, cause.pos, context)
       /\ c' = context
  /\ pc' = "rendered"
  /\ ret' = ParseError(cause)
  /\ UNCHANGED <<input, start, target, trailArg, resin, cause, latest, detailedFail, result,
                 vs, pass, empty, closure, options, prev, calls, fails, lazyRes>>

ErrorSpec == ErrorInit /\ [][Render]_vars

\* ------------------------------------------------------------ tree mode
\* One call of a ParseFn with the tree option, with and without trim, for
\* grammars of two levels built from the combinators that open nodes.
Brackets ==
  {bracket(l, k, r) : l \in Lefts, k \in Strs, r \in Strs}
    \cup {bracketEnds(<<e1, e2>>, k) : e1 \in Strs, e2 \in Strs, k \in Strs}
Nodeds ==
  Brackets \cup Pairs
    \cup {andNot(k, np) : k \in Pairs, np \in Strs}
    \cup {opt(k) : k \in Pairs}
    \cup {alt(<<k1, k2>>) : k1 \in Pairs, k2 \in Pairs}
TreeRoots ==
  Nodeds \cup {seq(<<k1, k2>>) : k1 \in Strs, k2 \in Nodeds} \cup {rep(k) : k \in Nodeds}
TreeOptions == {Treed(NoOptions), Treed(Options("true", Absent, Absent))}

TreeInit ==
  /\ input = <<>>
  /\ start = 0
  /\ target = NoParser
  /\ trailArg = ""
  /\ pc = "fn"
  /\ resin = NewSuccess
  /\ cause = NoCause
  /\ latest = NoCause
  /\ detailedFail = 0
  /\ result = NoResult
  /\ c = 0
  /\ vs = <<>>
  /\ pass = 0
  /\ empty = <<>>
  /\ \E root \in TreeRoots : closure = [parser |-> root, mps |-> NoParser, oerror |-> NoOptions]
  /\ options = NoOptions
  /\ ret = NoReturn
  /\ prev = NoReturn
  /\ calls = 0
  /\ err = NoError
  /\ fails = <<>>
  /\ lazyRes = NoLazy

TreeCall ==
  /\ calls = 0
  /\ \E s \in Inputs, error \in TreeOptions : CallFn(s, error)
  /\ prev' = NoReturn

TreeSpec == TreeInit /\ [][TreeCall]_vars

\* ------------------------------------------------------------ lazy
\* opt(h) is called again and again while the target of its handle h is
\* assigned and reassigned; one of the targets is seq(str('a'), opt(h)),
\* which makes the grammar recursive.
Handles == {unassigned, handle(str(<<A>>)), handle(str(<<SP>>)), handle(seq(<<str(<<A>>), optH>>))}

LazyInit ==
  /\ input = <<>>
  /\ start = 0
  /\ target = optH
  /\ trailArg = ""
  /\ pc = "idle"
  /\ resin = NewSuccess
  /\ cause = NoCause
  /\ latest = NoCause
  /\ detailedFail \in {0, 1}
  /\ result = NoResult
  /\ c = 0
  /\ vs = <<>>
  /\ pass = 0
  /\ empty = <<>>
  /\ closure = NoClosure
  /\ options = NoOptions
  /\ ret = NoReturn
  /\ prev = NoReturn
  /\ calls = 0
  /\ err = NoError
  /\ fails = <<>>
  /\ \E h \in Handles : lazyRes = [NoLazy EXCEPT !.h = h]

\* h.parser = target
Assign ==
  /\ pc # "running"
  /\ \E h \in Handles \ {lazyRes.h} : lazyRes' = [lazyRes EXCEPT !.h = h]
  /\ UNCHANGED <<input, start, target, trailArg, pc, resin, cause, latest, detailedFail, result,
                 c, vs, pass, empty, driver, fails>>

\* opt(h).parse(s, 0, [null, 0])
LazyCall ==
  /\ pc # "running"
  /\ calls < MaxCalls
  /\ \E s \in Inputs :
       /\ input' = s
       /\ Returns(Parse(optH, s, 0,
                        [St0 EXCEPT !.lazy.first = IF calls = 0 THEN lazyRes.h ELSE @]))
  /\ calls' = calls + 1
  /\ UNCHANGED <<start, target, trailArg, detailedFail, c, vs, pass, closure, options, ret, prev,
                 err, fails>>

LazyNext == Assign \/ LazyCall
LazySpec == LazyInit /\ [][LazyNext]_vars

\* ------------------------------------------------------------ the causes
\* fail, resetLatestCause, suggestCauseName and overrideCauseName called one
\* after the other on the shared records. The positions are those the
\* parsers pass to fail: 0..length of the input, and -1 (readTo at the end of
\* the input).
MaxFails == 3
FailPositions == -1..MaxLen
FailMessages == {"expected a", "expected b"}
CauseNames == {"", "x", "y"}

resetLatestCause(st) == [st EXCEPT !.latest = NoCause]

\* _cause[2] === _latestCause[2] is compared before _cause[2] is assigned
renamed(st, nm) ==
  [st EXCEPT !.cause.name = nm,
             !.latest.name = IF st.cause.pos = st.latest.pos /\ st.cause.name = st.latest.name
                             THEN nm ELSE @]
suggestCauseName(nm, st) == IF st.cause.name = "" /\ nm # "" THEN renamed(st, nm) ELSE st
overrideCauseName(nm, st) == IF nm # "" THEN renamed(st, nm) ELSE st

CauseInit ==
  /\ input = <<>>
  /\ start = 0
  /\ target = NoParser
  /\ trailArg = ""
  /\ pc = "reset"
  /\ resin = NewSuccess
  /\ cause \in {NoCause, [pos |-> MaxLen, msg |-> "", name |-> ""]}
  /\ latest = NoCause
  /\ detailedFail \in {0, 1}
  /\ result = NoResult
  /\ c = 0
  /\ vs = <<>>
  /\ pass = 0
  /\ empty = <<>>
  /\ closure = NoClosure
  /\ options = NoOptions
  /\ ret = NoReturn
  /\ prev = NoReturn
  /\ calls = 0
  /\ err = NoError
  /\ fails = <<>>
  /\ lazyRes = NoLazy

\* one call on the shared records, which leaves them as st
Causes(op, st, positions) ==
  /\ pc' = op
  /\ Leave(st)
  /\ fails' = positions
  /\ UNCHANGED <<input, start, target, trailArg, detailedFail, result, c, vs, pass, driver>>

Fail ==
  /\ Len(fails) < MaxFails
  /\ \E q \in FailPositions, m \in FailMessages :
       Causes("fail", fail(q, Msg(St, m), St).st, Append(fails, q))
Reset == pc # "reset" /\ Causes("reset", resetLatestCause(St), <<>>)
Suggest == pc = "fail" /\ \E nm \in CauseNames : Causes("suggest", suggestCauseName(nm, St), fails)
Override == pc # "reset" /\ \E nm \in CauseNames : Causes("override", overrideCauseName(nm, St), fails)

CauseNext == Fail \/ Reset \/ Suggest \/ Override
CauseSpec == CauseInit /\ [][CauseNext]_vars

\* ------------------------------------------------------------ properties
Done(k) == pc = "done" /\ target.k = k

\* what p.parse(input, q, resin) returns from the initial shared state
From(p, q) == Parse(p, input, q, St0)

\* C1: bracket(L, C, R) is seq(L, C, R) with the middle value projected out:
\* whenever L, C and R match one after the other, R ending at e, bracket
\* succeeds with C's value and position e.
BracketAsSeq(q) ==
  q.kind = "ok" => result.kind = "ok" /\ result.val = q.val.l[2] /\ result.pos = q.pos
C1_BracketIsSeqProjected == Done("bracket") => BracketAsSeq(From(seq(target.a), start))

\* C2: a successful parse started at p never returns a position before p.
C2_NeverBackwards == (pc = "done" /\ result.kind = "ok") => result.pos >= start

\* C3: a successful parse never returns a position beyond the end of the
\* input; in particular readToParser and read1ToParser do not.
C3_WithinInput == (pc = "done" /\ result.kind = "ok") => result.pos <= Len(input)

\* C4 as stated: andNot(p, q) tries q at the position p started at, and fails
\* exactly when p fails there or both succeed there.
AndNotAtStart(rp, rq) ==
  result.kind = "fail" <=> (rp.kind = "fail" \/ (rp.kind = "ok" /\ rq.kind = "ok"))
C4_NotTriedAtStart ==
  Done("andNot") => AndNotAtStart(From(target.a[1], start), From(target.a[2], start))

\* C4: andNot(p, q) tries q at the position p stopped at: it fails exactly
\* when p fails at the start or q succeeds from where p stopped.
AndNotAtEnd(rp) ==
  result.kind = "fail" <=>
    (rp.kind = "fail" \/ Parse(target.a[2], input, rp.pos, rp.st).kind = "ok")
C4_NotTriedWhereParserStopped == Done("andNot") => AndNotAtEnd(From(target.a[1], start))

\* q matches at the start, not where p stopped, and andNot(p, q) succeeds
C4_Witness ==
  /\ Done("andNot")
  /\ result.kind = "ok"
  /\ From(target.a[2], start).kind = "ok"

\* C5: when p succeeds and q fails, andNot(p, q) returns p's value and p's
\* end position, whatever q wrote into the shared array before it failed.
AndNotKeeps(rp) == result.val = rp.val /\ result.pos = rp.pos
C5_ReturnsParserResult ==
  (Done("andNot") /\ result.kind = "ok") => AndNotKeeps(From(target.a[1], start))

\* C6: rep(P) always terminates with success, also when P succeeds without
\* consuming input.
C6_RepTerminates == (pc = "rep") ~> (pc = "done" /\ result.kind = "ok")

\* element, separator, element, ... from c on, as far as they match, whatever
\* the trail policy: n elements with the values vals, the last one ending at
\* last; end tells which of the two failed, and c where
RECURSIVE Walk(_, _, _, _, _, _, _, _)
WalkSep(P, s, n, last, vals, seen, r) ==
  IF r.kind = "loop" THEN [end |-> "loop", n |-> n, last |-> last, vals |-> vals, c |-> last]
  ELSE IF r.kind = "fail" THEN [end |-> "sep", n |-> n, last |-> last, vals |-> vals, c |-> last]
  ELSE Walk(P, s, r.pos, r.st, n, last, vals, seen)

WalkElem(P, s, q, n, last, vals, seen, e) ==
  IF e.kind = "loop" THEN [end |-> "loop", n |-> n, last |-> last, vals |-> vals, c |-> q]
  ELSE IF e.kind = "fail" THEN [end |-> "elem", n |-> n, last |-> last, vals |-> vals, c |-> q]
  ELSE WalkSep(P, s, n + 1, e.pos, Append(vals, e.val), seen, Parse(P.a[2], s, e.pos, e.st))

Walk(P, s, q, st, n, last, vals, seen) ==
  IF <<q, st.resin.pos>> \in seen
  THEN [end |-> "loop", n |-> n, last |-> last, vals |-> vals, c |-> q]
  ELSE WalkElem(P, s, q, n, last, vals, seen \cup {<<q, st.resin.pos>>}, Parse(P.a[1], s, q, st))

TheWalk == Walk(target, input, start, St0, 0, start, <<>>, {})

\* a separator matched after the last element, and the element then failed
Trailing(w) == w.end = "elem" /\ w.n >= 1

\* C7 as stated: repsep(elem, sep, 'disallow'), a separator matching after
\* the last element and the element then failing: the result's position is
\* rewound to just after the last element.
Rewound(w) == Trailing(w) => result.kind = "ok" /\ result.pos = w.last
Refused(w) == Trailing(w) => result.kind = "fail" /\ (detailedFail < 2 => cause.pos = w.c)
Leftover(w) == Trailing(w) /\ w.c > w.last
FooRepsep == repsep(read1To(SP, "end"), str(<<SP>>), "disallow")

\* C8: repsep(read1To(" ", true), str(" "), 'disallow') fails on
\* "foo foo foo " and succeeds on "foo foo foo" with the three elements and
\* the position at the end of the input.
C8_FooFooFoo ==
  (pc = "done" /\ target = FooRepsep /\ start = 0) =>
    /\ input = FooTrail => result.kind = "fail"
    /\ input = FooNoTrail =>
         /\ result.kind = "ok"
         /\ result.val = ListV(<<StrV(Foo), StrV(Foo), StrV(Foo)>>)
         /\ result.pos = Len(FooNoTrail)

C8_Witness ==
  /\ pc = "done"
  /\ target = FooRepsep
  /\ input = FooTrail
  /\ result.kind = "fail"

\* C9: rep1sep(elem, sep, 'disallow'), a separator matching after at least
\* one element and the element then failing: rep1sep succeeds with the
\* elements so far and the position just after the last element.
Kept(w) ==
  Trailing(w) => result.kind = "ok" /\ result.val = ListV(w.vals) /\ result.pos = w.last
C9_Rep1sepRewinds == (Done("rep1sep") /\ target.t = "disallow") => Kept(TheWalk)

C9_Witness ==
  /\ Done("rep1sep")
  /\ target.t = "disallow"
  /\ result.kind = "ok"
  /\ Leftover(TheWalk)
  /\ result.pos < TheWalk.c

\* C10: repsep constructed without a trail argument allows a trailing
\* separator: the input is accepted and the separator consumed.
Consumed(w) == Trailing(w) => result.kind = "ok" /\ result.pos = w.c
C10_DefaultAllows == (Done("repsep") /\ trailArg = Omitted) => Consumed(TheWalk)

\* a separated repetition with the trail t has returned
DoneSep(t) == pc = "done" /\ target.k \in {"repsep", "rep1sep"} /\ target.t = t

\* C11: with the trail 'require', repsep and rep1sep fail when the last
\* element matched is not followed by a separator, and succeed with all the
\* elements, the last separator consumed, when every element is followed by
\* one.
Required(w) ==
  /\ (w.end = "sep" /\ w.n >= 1) => result.kind = "fail"
  /\ Trailing(w) =>
       result.kind = "ok" /\ result.val = ListV(w.vals) /\ result.pos = w.c
C11_RequireTrail == DoneSep("require") => Required(TheWalk)

\* two elements, the second not followed by a separator: a failure
MissingLast(w) == w.end = "sep" /\ w.n >= 2
C11_Witness ==
  /\ DoneSep("require")
  /\ target.k = "repsep"
  /\ result.kind = "fail"
  /\ MissingLast(TheWalk)

\* C12: peek(n) succeeds with the next n characters as its value and the
\* start position as its new position; it fails exactly when fewer than n
\* characters remain.
Peeked ==
  /\ result.kind = "ok" <=> Len(input) - start >= target.n
  /\ result.kind = "ok" =>
       /\ result.val = StrV(Substring(input, start, start + target.n))
       /\ result.pos = start
C12_PeekDoesNotAdvance == Done("peek") => Peeked

\* string n matches the input at p when case is ignored
MatchesAnyCase(n, s, p) ==
  /\ p + Len(n) <= Len(s)
  /\ toLowerCase(n) = toLowerCase(SubSeq(s, p + 1, p + Len(n)))

\* C13: istr succeeds exactly where one of its strings matches when case is
\* ignored; it returns that string as listed and consumes its length,
\* whatever follows.
Listed(hits) ==
  /\ result.kind = "ok" <=> hits # {}
  /\ result.kind = "ok" =>
       \E i \in hits : /\ result.val = StrV(target.strs[i])
                       /\ result.pos = start + Len(target.strs[i])
C13_IstrIsStrAnyCase ==
  Done("istr") =>
    Listed({i \in 1..Len(target.strs) : MatchesAnyCase(target.strs[i], input, start)})

\* the value and the position of a result
Outcome(r) == [kind |-> r.kind, val |-> r.val, pos |-> r.pos]

\* C14: alt returns the result of the first of its parsers, in the order
\* listed, that succeeds at the start position, without trying the later
\* ones; it fails exactly when every one of them fails there.
\* r1 and r2 are the parsers run alone on a new success array, next what the
\* second returns on the array the first has failed on
FirstOf(r1, r2, next) ==
  /\ r1.kind = "ok" => result = Outcome(r1) /\ St = r1.st
  /\ r1.kind = "fail" /\ r2.kind = "ok" => result = Outcome(next)
  /\ result.kind = "fail" <=> r1.kind = "fail" /\ r2.kind = "fail"
C14_AltFirstSuccess ==
  Done("alt") =>
    FirstOf(From(target.a[1], start), From(target.a[2], start),
            Parse(target.a[2], input, start, From(target.a[1], start).st))

\* both parsers succeed with different results: the first one's is returned
BothMatch(r1, r2) == r1.kind = "ok" /\ r2.kind = "ok" /\ Outcome(r1) # Outcome(r2)
C14_Witness ==
  /\ Done("alt")
  /\ result.kind = "ok"
  /\ BothMatch(From(target.a[1], start), From(target.a[2], start))

\* C15: when the mapped parser succeeds with v on a match from s to e, map
\* succeeds with f(v, fail, s, e) at e, unless f called fail(m): then map
\* fails and the failure record holds the position e and the message m.
MapOf(r, f) ==
  IF f.called
  THEN result.kind = "fail" /\ cause = [NoCause EXCEPT !.pos = r.pos, !.msg = f.err]
  ELSE result = [kind |-> "ok", val |-> f.val, pos |-> r.pos]
Mapped(r) == r.kind = "ok" => MapOf(r, mapFn(target.t, r.val, start, r.pos))
C15_MapFailsAtEnd == Done("map") => Mapped(From(target.a[1], start))

\* C16: skip and skip1 yield the empty string on every success, alone and
\* as the second parser of a seq, whatever the parser before them has left
\* in the success array.
SkipAlone == target.k \in {"skip", "skip1"}
SkipSecond == target.k = "seq" /\ target.a[2].k = "skip"
C16_SkipYieldsEmpty ==
  pc = "done" /\ result.kind = "ok" =>
    /\ SkipAlone => result.val = StrV(<<>>)
    /\ SkipSecond => result.val.l[2] = StrV(<<>>)

\* a call of the ParseFn has returned while consumeAll was in effect, and
\* its root parser had succeeded
ConsumeAllCall == pc = "returned" /\ ConsumeAll(options) /\ result.kind = "ok"

\* C17 as stated: when the root parser succeeds at N short of the end of the
\* input the ParseFn reports a failure at N with the message "expected to
\* consume all input, but only N chars consumed"; at the end of the input
\* it returns the value.
Reported(m) ==
  IF result.pos < Len(input)
  THEN ret.kind = "error" /\ ret.position = result.pos /\ ret.message = m
  ELSE ret = Value(result.val)
C17_ConsumeAllMessage == ConsumeAllCall => Reported(ConsumedOnly(result.pos))

\* C17, amended: the message is the one stated when the call runs with the
\* messages bit, and the empty string otherwise.
C17_ConsumeAll ==
  ConsumeAllCall =>
    Reported(IF Detail(options) = 1 THEN ConsumedOnly(result.pos) ELSE "")

\* 'a ' parsed with messages: read1('a') stops at 1, short of the end
C17_Witness ==
  /\ ConsumeAllCall
  /\ Detail(options) = 1
  /\ result.pos < Len(input)
  /\ ret.kind = "error"
  /\ ret.message = ConsumedOnly(result.pos)

\* the parser the ParseFn was created with: the trim wrappers taken off
RECURSIVE Root(_)
Root(parser) ==
  IF parser.k = "map" /\ parser.t = "first" THEN Root(parser.a[1].a[1]) ELSE parser

\* C18: whatever calls came before, a call with trim in effect runs the root
\* parser between two skips of white space, and a call with trim off runs
\* the root parser alone from position 0: it skips no leading and consumes
\* no trailing white space.
AsRun(r) == result.kind = r.kind /\ result.pos = r.pos
TrimOn(root) ==
  AsRun(Parse(seq(<<skip(Whitespace), root, skip(Whitespace)>>), input, 0,
              [St0 EXCEPT !.detailedFail = Detail(options)]))
TrimOff(root) ==
  AsRun(Parse(root, input, 0, [St0 EXCEPT !.detailedFail = Detail(options)]))
C18_TrimPerCall ==
  pc = "returned" =>
    IF Trim(options) THEN TrimOn(Root(closure.parser)) ELSE TrimOff(Root(closure.parser))

\* C19: a call of a ParseFn that repeats the call before it, with the same
\* input and the same options, returns what that call returned, also when
\* the function of a map changes the list it receives from a rep or repsep.
Repeated == pc = "returned" /\ prev # NoReturn
C19_SameCallSameResult == Repeated => ret = prev

\* a combinator over a lazy parser whose target is not assigned yet has been
\* called
UsedUnassigned ==
  pc \in {"done", "thrown"} /\ target.a # <<>> /\ target.a[1] = unassigned

\* C20: a lazy parser used before its target is assigned behaves as the
\* parser that always fails: no exception is raised, and the combinator
\* returns what it returns over a parser that fails at the start position
\* with the message "uninitialized lazy parser".
AsOverUninit(r) == pc = "done" /\ result = Outcome(r) /\ cause = r.st.cause
C20_UnassignedLazyFails ==
  UsedUnassigned => AsOverUninit(From([target EXCEPT !.a[1] = uninit], start))

\* the line breaks of s before position pos
BreaksBefore(s, pos) == Cardinality({i \in 0..(pos - 1) : At(s, i) = "\n"})

\* C21: the line of a ParseError is one plus the number of line breaks that
\* precede the error position, a line break at index 0 included.
C21_LineCountsBreaks == pc = "rendered" => err.line = 1 + BreaksBefore(input, cause.pos)

\* the offset of position pos from the start of its line
Offset(s, pos) ==
  pos - (CHOOSE b \in 0..pos : /\ b = 0 \/ At(s, b - 1) = "\n"
                               /\ \A i \in b..(pos - 1) : At(s, i) # "\n")

\* n spaces, or tabs where the line has them, then the caret
Pointer(s, pos, n) ==
  [i \in 1..n |-> IF At(s, pos - Offset(s, pos) + i - 1) = "\t" THEN "\t" ELSE " "]
    \o <<"^", "-", "-">>

\* C22 as stated: the column is the offset of the error position from the
\* start of its line, counted from 0, and the marker line has that many
\* spaces or tabs before "^--".
C22_ColumnFromZero ==
  pc = "rendered" =>
    /\ err.column = Offset(input, cause.pos)
    /\ err.marker = Pointer(input, cause.pos, err.column)

\* C22, amended: for a position inside a line the column counts from 1, and
\* the marker line has column - 1 spaces or tabs before "^--"; a position on
\* a line break has column 0 and the caret at the start of the marker line.
OnBreak == At(input, cause.pos) = "\n"
C22_ColumnFromOne ==
  pc = "rendered" =>
    IF OnBreak THEN err.column = 0 /\ err.marker = <<"^", "-", "-">>
    ELSE /\ err.column = Offset(input, cause.pos) + 1
         /\ err.marker = Pointer(input, cause.pos, err.column - 1)

\* an error at the second character of a line that starts with a tab
C22_Witness ==
  /\ pc = "rendered"
  /\ ~OnBreak
  /\ err.column = 2
  /\ err.marker = <<"\t", "^", "-", "-">>

\* C23: no call of a ParseFn changes the process-wide detail flag, whether
\* it returns a value or a ParseError, throws the ParseError, or is left by
\* an exception raised inside the parse.
C23_FlagRestored == [][detailedFail' = detailedFail]_vars

\* the messages bit as the spec resolves it: from the options of the call
\* where they mention detailed, from the options of the ParseFn otherwise
Messages(error) ==
  IF Has(error, "detailed") THEN error.detailed = "true" ELSE Truthy(closure.oerror, "detailed")

\* C24: a call of a ParseFn runs with the messages bit of its own options
\* where they mention detailed and with the bit of the ParseFn's options
\* otherwise, so that the ParseError it returns carries a message exactly
\* when that bit is on.
C24_DetailPerBit ==
  pc = "returned" /\ ret.kind = "error" => (ret.message # "" <=> Messages(options))

\* C25: when a built-in parser started at p fails, the position of the
\* shared failure record lies between p and the length of the input, under
\* either setting of the messages bit.
C25_FailureWithinInput ==
  pc = "done" /\ result.kind = "fail" => start <= cause.pos /\ cause.pos <= Len(input)

\* C26: the ParseError of a call without the detailed option has no latest
\* member, whatever earlier calls recorded; a latest member is a failure
\* recorded during the same call, after the reset at its start: it carries a
\* message and lies at or after the position of the error.
C26_LatestOnlyDetailed ==
  pc = "returned" /\ ret.kind = "error" =>
    /\ ~Messages(options) => ~ret.latest.has
    /\ ret.latest.has => ret.latest.message # "" /\ ret.latest.position >= ret.position

\* the greatest of the positions of a non-empty sequence
RECURSIVE Greatest(_)
Greatest(positions) ==
  IF Len(positions) = 1 THEN positions[1]
  ELSE Max(positions[1], Greatest(Tail(positions)))

\* C27: with the messages bit on the position of the latest cause is the
\* greatest position passed to fail since the last reset, and a failure at
\* that position has replaced the record: right after it the latest cause
\* carries its message.
C27_LatestIsGreatest ==
  detailedFail = 1 /\ fails # <<>> =>
    /\ latest.pos = Greatest(fails)
    /\ pc = "fail" /\ cause.pos = latest.pos => latest.msg = cause.msg

\* parser is built with one of the constructors ks
RECURSIVE Uses(_, _)
Uses(parser, ks) == parser.k \in ks \/ \E i \in 1..Len(parser.a) : Uses(parser.a[i], ks)

\* the parse has failed while the messages bit was off
FailedSilent == pc = "done" /\ detailedFail = 0 /\ result.kind = "fail"

\* C28 as stated: with the messages bit off every failure a built-in parser
\* records carries the empty message, map and verify included.
C28_NoMessage == FailedSilent => cause.msg = ""

\* the messages the user functions of map and verify hand over
Supplied == {"rejected", "cannot start with a", "refused", "must not be a"}

\* C28, amended: with the detail flag at 0 the message of a recorded failure
\* is empty, unless a map or verify of the grammar recorded the message its
\* user function supplied.
C28_NoConstructedMessage ==
  FailedSilent => cause.msg = "" \/ (Uses(target, {"map", "verify"}) /\ cause.msg \in Supplied)

\* a parser without map and verify has failed at a place where it
\* constructs a message when the bit is on
C28_Witness ==
  /\ FailedSilent
  /\ ~Uses(target, {"map", "verify"})
  /\ cause.msg = ""
  /\ Parse(target, input, start, [St0 EXCEPT !.detailedFail = 1]).st.cause.msg # ""

\* start <= end in the node and in every node below it, and every child
\* inside its parent
RECURSIVE WellFormed(_)
WellFormed(parent) ==
  /\ parent.start <= parent.end
  /\ \A i \in 1..Len(parent.children) :
       /\ parent.children[i].start >= parent.start
       /\ parent.children[i].end <= parent.end
       /\ WellFormed(parent.children[i])

\* C29: every node of the tree a successful parse in tree mode returns has
\* start <= end and lies inside its parent.
C29_NodesNested == pc = "returned" /\ ret.kind = "node" => WellFormed(ret.node)

\* what opt over the parser ps returns for the input
Over(ps) == Parse(opt(ps), input, 0, [St0 EXCEPT !.lazy.replaced = TRUE, !.lazy.ps = ps])

\* C30: a combinator created with lazy(init, parse) has run init once when
\* it has been called, also when the grammar is recursive, and every call
\* runs parse on the target the handle had at the first call, whatever has
\* been assigned to the handle since.
C30_InitOnce ==
  /\ lazyRes.inits <= 1
  /\ calls >= 1 =>
       /\ lazyRes.inits = 1
       /\ lazyRes.ps = unwrap(lazyRes.first)
       /\ pc = "done" => AsRun(Over(unwrap(lazyRes.first)))
       /\ pc = "thrown" => Over(unwrap(lazyRes.first)).kind = "throw"

\* the second call of opt(h), through the recursive grammar, after the
\* handle has been given another target
C30_Witness ==
  /\ calls = 2
  /\ pc = "done"
  /\ lazyRes.first = handle(seq(<<str(<<A>>), optH>>))
  /\ lazyRes.h # lazyRes.first
  /\ input = A \o A
  /\ result.pos = 2

====
